---- MODULE Spec2Model ----
(***************************************************************************)
(* Swerve: chunked, fallback-aware delivery of a page capture.             *)
(*                                                                         *)
(*   SpecSplit  the chunk splitter of examples/test-chunking.js            *)
(*   Spec       the chunk reassembly server of examples/server.js          *)
(*   SpecTimed  the same server while its clock advances                   *)
(*   SpecAsync  the same server, its handlers split at their await points  *)
(*   SpecClient the integration client (testChunkSubmission) against the   *)
(*              server                                                     *)
(*   SpecSend   the transport selector (sendWithFallbacks) of the          *)
(*              bookmarklet                                                *)
(*   SpecAllowlist  the site allowlist (SwerveAllowlist)                   *)
(*   SpecConfig     the configuration (SwerveConfig) of src/config.js      *)
(*   SpecDash       the dashboard server of server.js and its timers       *)
(* SpecSplitFair, SpecJobs, SpecPageless and SpecEvicting are the splitter *)
(* under fairness and the reassembly server under further inputs.          *)
(***************************************************************************)
EXTENDS Integers, Sequences, FiniteSets, TLC

\* ---------------------------------------------------------------- bounds
MaxLen == 5
MaxChunkSize == 3
MaxTotal == 3       \* largest chunk count a message declares
MaxReceived == 4    \* chunk messages the store holds at once, over all jobs
MaxClock == 1       \* the last reading of the server's clock
MaxPending == 2     \* handlers suspended at an await at once
MaxJobs == 2        \* jobs the dashboard server accepts

Chars == {"a", "b"}

\* The jobIds of the payloads.
JobIds == {"j1", "j2"}

Min(a, b) == IF a < b THEN a ELSE b

RECURSIVE SeqsUpTo(_, _)
SeqsUpTo(S, n) ==
  IF n = 0 THEN {<<>>}
  ELSE LET shorter == SeqsUpTo(S, n - 1)
       IN  shorter \cup {Append(s, x) : s \in {t \in shorter : Len(t) = n - 1}, x \in S}

VARIABLES
  content,      \* splitIntoChunks: the content argument
  chunkSize,    \* splitIntoChunks: the chunkSize argument
  chunks,       \* splitIntoChunks: the chunks array
  offset,       \* splitIntoChunks: the loop variable
  iterations,   \* number of loop bodies executed so far
  splitPc,      \* "loop" | "returned" | "joined" | "idle"
  joined        \* testChunking: chunks.join('')

splitVars == <<content, chunkSize, chunks, offset, iterations, splitPc, joined>>

VARIABLES
  jobIds,       \* the jobIds the clients of this run use
  chunkStore,   \* server: the chunkStore Map, jobId -> job data
  timers,       \* server: pending cleanup timeouts per jobId (setTimeout, 60 s)
  req,          \* server: the request the last handler served
  res,          \* server: the response the last handler sent
  reported,     \* what the responses for the current job record have reported
  now           \* server: the time new Date() reads

serverVars == <<jobIds, chunkStore, timers, req, res, reported, now>>

VARIABLES
  pending,      \* server: the handlers suspended at an await, oldest first
  triggers      \* per job record: calls of reassembleChunks, processCompleteCapture

asyncVars == <<pending, triggers>>

VARIABLES
  clientPc,     \* testChunkSubmission: the request to submit next, or how it ended
  sent,         \* testChunkSubmission: the requests submitted so far
  awaiting,     \* testChunkSubmission: the outcome of the request it awaits
  exitCode      \* testChunkSubmission: the code of process.exit, 0 before

clientVars == <<clientPc, sent, awaiting, exitCode>>

VARIABLES
  i,            \* sendWithFallbacks: the loop index into methods
  attempts,     \* the methods invoked so far, each with the error it threw
  sendPc,       \* "idle" | "loop" | "returned" | "threw"
  sendResult    \* what sendWithFallbacks returned, or the error it threw

sendVars == <<i, attempts, sendPc, sendResult>>

VARIABLES
  evicted       \* server: the jobIds whose record a cleanup timeout has deleted

VARIABLES
  storedMode,   \* localStorage['swerve_mode'], "" when absent
  storedLists,  \* localStorage['swerve_allowlist'], localStorage['swerve_denylist']
  checked       \* SwerveAllowlist: the last isAllowed call and what it returned

listVars == <<storedMode, storedLists, checked>>

VARIABLES
  defaultConfig,  \* SwerveConfig: what this.defaultConfig holds by now
  config,         \* this.config, and what it shares with defaultConfig
  storedConfig,   \* localStorage['swerve-config']
  returned        \* the last method called and what it returned

configVars == <<defaultConfig, config, storedConfig, returned>>

VARIABLES
  jobs,        \* dashboard: the Map of jobs, by jobId
  jobCounter,  \* the counter of the next jobId
  dashTimers,  \* the timeouts of simulateProcessing yet to fire
  reply,       \* the last response the dashboard server sent
  running      \* whether the server process is alive

dashVars == <<jobs, jobCounter, dashTimers, reply, running>>

\* The variables of the components specified further below.
restVars == <<evicted, listVars, configVars, dashVars>>

vars == <<splitVars, serverVars, asyncVars, clientVars, sendVars, restVars>>

\* ------------------------------------------------------ the chunk splitter

\* A slice whose end is taken as inclusive.
SliceInclusiveEnd(s, start, end) == SubSeq(s, start + 1, Min(end + 1, Len(s)))

\* A slice whose second argument is taken as a length, as substr takes it.
SliceAsSubstr(s, start, end) == SubSeq(s, start + 1, Min(start + end, Len(s)))

\* String.prototype.slice(start, end) for 0 <= start <= end: the characters at
\* positions start .. min(end, length) - 1 (0-based).
Slice(s, start, end) == SubSeq(s, start + 1, Min(end, Len(s)))

\* Array.prototype.join('') of an array of strings.
RECURSIVE Join(_)
Join(ss) == IF ss = <<>> THEN <<>> ELSE Head(ss) \o Join(Tail(ss))

SplitIdle ==
  /\ content = <<>>
  /\ chunkSize = 1
  /\ chunks = <<>>
  /\ offset = 0
  /\ iterations = 0
  /\ splitPc = "idle"
  /\ joined = <<>>

\* A request as the router sees it: its route and, of its body or path, the
\* message type and the jobId.
Request(route, type, jobId) == [route |-> route, type |-> type, jobId |-> jobId]

NoRequest == Request("", "", "")

ServerIdle ==
  /\ jobIds = {}
  /\ chunkStore = <<>>
  /\ timers = [j \in JobIds |-> 0]
  /\ req = NoRequest
  /\ res = [kind |-> "none"]
  /\ reported = [j \in JobIds |-> [complete |-> FALSE, finalized |-> FALSE]]
  /\ now = 0

NoTriggers == [j \in JobIds |-> [reassembled |-> 0, processed |-> 0]]

AsyncIdle ==
  /\ pending = <<>>
  /\ triggers = NoTriggers

NoOutcome == [settled |-> "none"]

ClientIdle ==
  /\ clientPc = "idle"
  /\ sent = <<>>
  /\ awaiting = NoOutcome
  /\ exitCode = 0

\* A localStorage item: absent, the JSON of an array, or a string that is no JSON.
Absent == [kind |-> "absent", value |-> <<>>]

NoCheck == [mode |-> "", host |-> <<>>, allowed |-> TRUE, reason |-> ""]

ListIdle ==
  /\ storedMode = ""
  /\ storedLists = [type \in {"allowlist", "denylist"} |-> Absent]
  /\ checked = NoCheck

DefaultSelectors == <<".swerve-no-redact", "#swerve-no-redact", ".swerve-preview">>

BuiltIn == {"email", "phone", "ssn", "creditCard"}

BuiltInPatterns == {[name |-> n, enabled |-> TRUE, custom |-> FALSE] : n \in BuiltIn}

\* The object literal the constructor assigns to this.defaultConfig.
DefaultConfig ==
  [visualIndicators |-> TRUE,
   patterns         |-> BuiltInPatterns,
   excludeSelectors |-> DefaultSelectors]

Shareable == {"patterns", "excludeSelectors"}

\* { ...this.defaultConfig }: a new object whose privacy is defaultConfig's.
ShallowCopy(default) ==
  [visualIndicators |-> default.visualIndicators,
   shared           |-> Shareable,
   patterns         |-> {},
   excludeSelectors |-> <<>>]

NoStoredConfig == [state |-> "absent", value |-> DefaultConfig]

NoCall == [method |-> "", value |-> FALSE]

ConfigIdle ==
  /\ defaultConfig = DefaultConfig
  /\ config = ShallowCopy(DefaultConfig)
  /\ storedConfig = NoStoredConfig
  /\ returned = NoCall

JobStatus ==
  [PENDING |-> "pending", PROCESSING |-> "processing",
   COMPLETED |-> "completed", FAILED |-> "failed"]

NoJobs == [jobId \in {} |-> [status |-> JobStatus.PENDING, hasPage |-> TRUE]]

NoReply == [route |-> "", jobId |-> 0, code |-> 0, status |-> ""]

DashIdle ==
  /\ jobs = NoJobs
  /\ jobCounter = 1
  /\ dashTimers = {}
  /\ reply = NoReply
  /\ running = TRUE

RestIdle ==
  /\ evicted = {}
  /\ ListIdle
  /\ ConfigIdle
  /\ DashIdle

NoError == [name |-> "", message |-> <<>>]

NoResult == [success |-> FALSE, error |-> "", guidance |-> FALSE,
             data |-> [method |-> "", response |-> FALSE]]

SendIdle ==
  /\ i = 0
  /\ attempts = <<>>
  /\ sendPc = "idle"
  /\ sendResult = NoResult

InitSplit ==
  /\ RestIdle
  /\ ServerIdle
  /\ AsyncIdle
  /\ ClientIdle
  /\ SendIdle
  /\ content \in SeqsUpTo(Chars, MaxLen)
  /\ chunkSize \in 1..MaxChunkSize
  /\ chunks = <<>>
  /\ offset = 0
  /\ iterations = 0
  /\ splitPc = "loop"
  /\ joined = <<>>

\* A while body that does not advance the offset.
SplitStepStalls ==
  /\ splitPc = "loop"
  /\ offset < Len(content)
  /\ iterations < MaxLen + 1
  /\ chunks' = Append(chunks, SubSeq(content, offset + 1, Min(offset + chunkSize, Len(content))))
  /\ iterations' = iterations + 1
  /\ UNCHANGED <<content, chunkSize, offset, splitPc, joined>>
  /\ UNCHANGED <<serverVars, asyncVars, clientVars, sendVars, restVars>>

\* The while body under the loop condition offset <= content.length.
SplitStepInclusive ==
  /\ splitPc = "loop"
  /\ offset <= Len(content)
  /\ chunks' = Append(chunks, SubSeq(content, offset + 1, Min(offset + chunkSize, Len(content))))
  /\ offset' = offset + chunkSize
  /\ iterations' = iterations + 1
  /\ UNCHANGED <<content, chunkSize, splitPc, joined>>
  /\ UNCHANGED <<serverVars, asyncVars, clientVars, sendVars, restVars>>

\* One execution of the while body.
SplitStep ==
  /\ splitPc = "loop"
  /\ offset < Len(content)
  /\ chunks' = Append(chunks, Slice(content, offset, offset + chunkSize))
  /\ offset' = offset + chunkSize
  /\ iterations' = iterations + 1
  /\ UNCHANGED <<content, chunkSize, splitPc, joined>>
  /\ UNCHANGED <<serverVars, asyncVars, clientVars, sendVars, restVars>>

\* The loop condition fails: return chunks.
SplitReturn ==
  /\ splitPc = "loop"
  /\ ~(offset < Len(content))
  /\ splitPc' = "returned"
  /\ UNCHANGED <<content, chunkSize, chunks, offset, iterations, joined>>
  /\ UNCHANGED <<serverVars, asyncVars, clientVars, sendVars, restVars>>

\* testChunking: const reassembled = chunks.join('').
Reassemble ==
  /\ splitPc = "returned"
  /\ joined' = Join(chunks)
  /\ splitPc' = "joined"
  /\ UNCHANGED <<content, chunkSize, chunks, offset, iterations>>
  /\ UNCHANGED <<serverVars, asyncVars, clientVars, sendVars, restVars>>

NextSplit == SplitStep \/ SplitReturn \/ Reassemble

SpecSplit == InitSplit /\ [][NextSplit]_vars

\* The test runs on: a statement that can execute does execute.
SpecSplitFair == InitSplit /\ [][NextSplit]_vars /\ WF_vars(NextSplit)

\* threshold = 1024 * 1024 over chunkSize = 256 * 1024
ThresholdChunks == 4

\* testChunking: (contentSize > threshold) === (chunks.length > 1), with the
\* threshold at its ratio to the chunk size.
ThresholdTest ==
  (Len(content) > ThresholdChunks * chunkSize) <=> (Len(chunks) > 1)

\* ------------------------------------------- the chunk reassembly server
\* Node runs each callback to completion: an await of an already settled
\* promise resumes in a microtask, before any other request or timer callback,
\* and neither reassembleChunks nor processCompleteCapture waits for I/O. Each
\* handler is therefore one atomic step; the cleanup timeout is a step of its own.

Html == {<<"a">>, <<"b">>}
Indices == 0..(MaxTotal - 1)
Totals == 1..MaxTotal

\* POST /ingest bodies. version: payload.version is truthy; type: payload.type;
\* hasChunk: payload.transfer && payload.transfer.chunk; hasPage: payload.page;
\* jobId "" and total 0 stand for an absent field. Job j1 is a chunked upload (chunk: {index, count,
\* total} with count = total, or {index, count: 1}); job j2 is the single payload
\* the plain bookmarklet sends (chunk: {index: 0, count: 1}).
ChunkMessages ==
  {m \in [version : {TRUE}, type : {"chunk"}, hasChunk : {TRUE}, jobId : {"j1"},
          index : Indices, count : Totals, total : {0} \cup Totals, html : Html,
          hasPage : {TRUE}] :
     \/ m.total = m.count
     \/ m.total = 0 /\ m.count = 1}
  \cup
  [version : {TRUE}, type : {"chunk"}, hasChunk : {TRUE}, jobId : {"j2"},
   index : {0}, count : {1}, total : {0}, html : Html, hasPage : {TRUE}]

FinalizationMessages ==
  [version : {TRUE}, type : {"finalization"}, hasChunk : {TRUE}, jobId : JobIds,
   index : {-1}, count : {1}, total : {0}, html : {<<>>}, hasPage : {FALSE}]

\* A body without version, without transfer.chunk or without jobId.
MalformedMessages ==
  {m \in [version : BOOLEAN, type : {"chunk"}, hasChunk : BOOLEAN,
          jobId : {"j1", ""}, index : {0}, count : {1}, total : {0},
          html : {<<"a">>}, hasPage : {TRUE}] :
     ~m.version \/ ~m.hasChunk \/ m.jobId = ""}

Payloads == ChunkMessages \cup FinalizationMessages \cup MalformedMessages

\* Chunks of a capture sent without its page object.
PagelessMessages ==
  {m \in [version : {TRUE}, type : {"chunk"}, hasChunk : {TRUE}, jobId : {"j1"},
          index : Indices, count : Totals, total : {0} \cup Totals, html : {<<"a">>},
          hasPage : {FALSE}] :
     /\ m.total = m.count
     /\ m.count <= 2
     /\ m.index < m.count}

Has(j) == j \in DOMAIN chunkStore

RECURSIVE SumReceived(_)
SumReceived(js) ==
  IF js = {} THEN 0
  ELSE LET j == CHOOSE x \in js : TRUE
       IN  chunkStore[j].receivedChunks + SumReceived(js \ {j})

\* The chunk messages counted by the records now in the store.
TotalReceived == SumReceived(DOMAIN chunkStore)

\* Map.prototype.set on the chunks Map, kept as its entries in insertion order:
\* a key already present keeps its place and takes the new value.
MapSet(entries, index, html) ==
  IF \E k \in 1..Len(entries) : entries[k].index = index
  THEN [k \in 1..Len(entries) |->
          IF entries[k].index = index
          THEN [index |-> index, html |-> html]
          ELSE entries[k]]
  ELSE Append(entries, [index |-> index, html |-> html])

MapKeys(entries) == {entries[k].index : k \in 1..Len(entries)}

\* Array.prototype.sort with the comparator indexA - indexB (stable).
RECURSIVE InsertByIndex(_, _)
InsertByIndex(e, sorted) ==
  IF sorted = <<>> THEN <<e>>
  ELSE IF e.index - Head(sorted).index < 0
       THEN <<e>> \o sorted
       ELSE <<Head(sorted)>> \o InsertByIndex(e, Tail(sorted))

RECURSIVE SortByIndex(_)
SortByIndex(entries) ==
  IF entries = <<>> THEN <<>>
  ELSE InsertByIndex(entries[Len(entries)],
                     SortByIndex(SubSeq(entries, 1, Len(entries) - 1)))

\* The entries left in insertion (arrival) order.
UnsortedChunks(entries) == entries

\* A reassembly that does not mark the job reassembled.
ReassembleWithoutFlag(jobData) ==
  [jobData EXCEPT !.completeHtml = Join([k \in 1..Len(jobData.chunks) |->
                                           SortByIndex(jobData.chunks)[k].html])]

\* sortedChunks of reassembleChunks: the entries sorted by index.
SortedChunks(entries) == SortByIndex(entries)

\* reassembleChunks: the job data after reassembly (never null for a stored job).
ReassembleChunks(jobData) ==
  LET sortedChunks == [k \in 1..Len(jobData.chunks) |-> SortedChunks(jobData.chunks)[k].html]
  IN  [jobData EXCEPT !.reassembled = TRUE, !.completeHtml = Join(sortedChunks)]

\* total || count
TotalOrCount(total, count) == IF total # 0 THEN total ELSE count

\* The job data chunkStore.set creates for a first chunk.
NewJob(payload) ==
  [chunks |-> <<>>,
   receivedChunks |-> 0,
   totalExpected |-> TotalOrCount(payload.total, payload.count),
   reassembled |-> FALSE,
   completeHtml |-> <<>>,
   hasPage |-> payload.hasPage,
   finalized |-> FALSE,
   finalizedAt |-> -1]

\* jobData.receivedChunks++
CountReceived(jobData, entries) == jobData.receivedChunks + 1

ErrorResponse(status) == [kind |-> "error", status |-> status]

Report(j, complete, finalized) ==
  [reported EXCEPT ![j] = [complete |-> @.complete \/ complete,
                           finalized |-> @.finalized \/ finalized]]

\* An acknowledgment that reports the 0-based index of the chunk.
AckIndex(payload, jobData) ==
  [kind |-> "ack", status |-> 202, jobId |-> payload.jobId,
   chunkReceived |-> payload.index,
   totalChunks |-> jobData.totalExpected,
   isComplete |-> jobData.receivedChunks = jobData.totalExpected]

\* res.status(202).json({jobId, trackUrl, chunkReceived, totalChunks, isComplete})
Ack(payload, jobData) ==
  [kind |-> "ack", status |-> 202, jobId |-> payload.jobId,
   chunkReceived |-> payload.index + 1,
   totalChunks |-> jobData.totalExpected,
   isComplete |-> jobData.receivedChunks = jobData.totalExpected]

\* app.post('/ingest'), a chunk or single payload.
HandleChunk(payload) ==
  LET j == payload.jobId
      store == IF Has(j) THEN chunkStore ELSE chunkStore @@ (j :> NewJob(payload))
      entries == MapSet(store[j].chunks, payload.index, payload.html)
      stored == [store[j] EXCEPT !.chunks = entries,
                                 !.receivedChunks = CountReceived(store[j], entries)]
      allReceived == stored.receivedChunks = stored.totalExpected
      jobData == IF allReceived THEN ReassembleChunks(stored) ELSE stored
      \* processCompleteCapture: capture.page.title throws for a capture
      \* without page, before the timeout is set; the handler's catch answers.
      threw == allReceived /\ ~jobData.hasPage
  IN  /\ TotalReceived < MaxReceived
      /\ chunkStore' = [store EXCEPT ![j] = jobData]
      \* processCompleteCapture: setTimeout(() => chunkStore.delete(jobId), 60000)
      /\ timers' = IF allReceived /\ ~threw THEN [timers EXCEPT ![j] = @ + 1] ELSE timers
      /\ res' = IF threw THEN ErrorResponse(500) ELSE Ack(payload, jobData)
      /\ reported' = IF threw THEN reported ELSE Report(j, res'.isComplete, FALSE)

\* A finalization that marks the job only once every chunk has been counted.
HandleFinalizationWhenComplete(payload) ==
  LET j == payload.jobId
  IN  IF ~Has(j)
      THEN /\ res' = [kind |-> "error", status |-> 404]
           /\ UNCHANGED <<chunkStore, timers, reported>>
      ELSE LET jobData == chunkStore[j]
               complete == jobData.receivedChunks = jobData.totalExpected
           IN  /\ chunkStore' = [chunkStore EXCEPT ![j].finalized = @ \/ complete]
               /\ timers' = timers
               /\ res' = [kind |-> "finalized", status |-> 200, jobId |-> j,
                          chunksReceived |-> jobData.receivedChunks,
                          totalExpected |-> jobData.totalExpected]
               /\ reported' = Report(j, FALSE, TRUE)

\* A finalization that creates the record of a job it does not find.
HandleFinalizationCreates(payload) ==
  LET j == payload.jobId
      store == IF Has(j) THEN chunkStore ELSE chunkStore @@ (j :> NewJob(payload))
      jobData == [store[j] EXCEPT !.finalized = TRUE, !.finalizedAt = now]
  IN  /\ chunkStore' = [store EXCEPT ![j] = jobData]
      /\ timers' = timers
      /\ res' = [kind |-> "finalized", status |-> 200, jobId |-> j,
                 chunksReceived |-> jobData.receivedChunks,
                 totalExpected |-> jobData.totalExpected]
      /\ reported' = Report(j, FALSE, TRUE)

\* handleFinalization
HandleFinalization(payload) ==
  LET j == payload.jobId
  IN  IF ~Has(j)
      THEN /\ res' = ErrorResponse(404)
           /\ UNCHANGED <<chunkStore, timers, reported>>
      ELSE LET marked == [chunkStore[j] EXCEPT !.finalized = TRUE, !.finalizedAt = now]
               tryNow == ~marked.reassembled
                         /\ marked.receivedChunks = marked.totalExpected
               jobData == IF tryNow THEN ReassembleChunks(marked) ELSE marked
           IN  /\ chunkStore' = [chunkStore EXCEPT ![j] = jobData]
               /\ timers' = IF tryNow /\ jobData.hasPage
                            THEN [timers EXCEPT ![j] = @ + 1]
                            ELSE timers
               /\ res' = [kind |-> "finalized", status |-> 200, jobId |-> j,
                          chunksReceived |-> jobData.receivedChunks,
                          totalExpected |-> jobData.totalExpected]
               /\ reported' = Report(j, FALSE, TRUE)

\* app.post('/ingest'): the handler run on the body payload.
Ingest(payload) ==
  /\ IF ~payload.version
     THEN /\ res' = ErrorResponse(400)
          /\ UNCHANGED <<chunkStore, timers, reported>>
     ELSE IF payload.type = "finalization"
     THEN HandleFinalization(payload)
     ELSE IF ~payload.hasChunk \/ payload.jobId = ""
     THEN /\ res' = ErrorResponse(400)
          /\ UNCHANGED <<chunkStore, timers, reported>>
     ELSE HandleChunk(payload)
  /\ req' = Request("POST /ingest", payload.type, payload.jobId)
  /\ UNCHANGED <<jobIds, now>>

\* app.post('/ingest'), requested by any client.
PostIngest ==
  \E payload \in Payloads :
    /\ payload.jobId \in jobIds \cup {""}
    /\ Ingest(payload)
    /\ UNCHANGED <<splitVars, asyncVars, clientVars, sendVars, restVars>>

\* app.get('/jobs/:jobId'): the handler run for the jobId j.
GetJobFor(j) ==
  /\ IF ~Has(j)
     THEN /\ res' = ErrorResponse(404)
          /\ UNCHANGED reported
     ELSE /\ res' = [kind |-> "status", status |-> 200, jobId |-> j,
                     completed |-> chunkStore[j].reassembled,
                     chunksReceived |-> chunkStore[j].receivedChunks,
                     totalExpected |-> chunkStore[j].totalExpected,
                     finalized |-> chunkStore[j].finalized]
          /\ reported' = Report(j, res'.completed, res'.finalized)
  /\ req' = Request("GET /jobs/:jobId", "", j)
  /\ UNCHANGED <<jobIds, chunkStore, timers, now>>

\* app.get('/jobs/:jobId'), requested by any client.
GetJob ==
  \E j \in jobIds :
    /\ GetJobFor(j)
    /\ UNCHANGED <<splitVars, asyncVars, clientVars, sendVars, restVars>>

\* The cleanup timeout of processCompleteCapture fires: chunkStore.delete(jobId).
\* It responds to no request; the record the reports were about is gone.
CleanupOf(j) ==
  /\ timers[j] > 0
  /\ timers' = [timers EXCEPT ![j] = @ - 1]
  /\ chunkStore' = [k \in DOMAIN chunkStore \ {j} |-> chunkStore[k]]
  /\ req' = NoRequest
  /\ res' = [kind |-> "none"]
  /\ reported' = [reported EXCEPT ![j] = [complete |-> FALSE, finalized |-> FALSE]]
  /\ UNCHANGED <<jobIds, now>>

Cleanup ==
  \E j \in JobIds :
    /\ CleanupOf(j)
    /\ UNCHANGED <<splitVars, asyncVars, clientVars, sendVars, restVars>>

\* Time passes on the server between two callbacks.
Tick ==
  /\ now < MaxClock
  /\ now' = now + 1
  /\ UNCHANGED <<jobIds, chunkStore, timers, req, res, reported>>
  /\ UNCHANGED <<splitVars, asyncVars, clientVars, sendVars, restVars>>

ServerInit(ids) ==
  /\ jobIds = ids
  /\ chunkStore = <<>>
  /\ timers = [j \in JobIds |-> 0]
  /\ req = NoRequest
  /\ res = [kind |-> "none"]
  /\ reported = [j \in JobIds |-> [complete |-> FALSE, finalized |-> FALSE]]
  /\ now = 0

\* One chunked upload, all of it within one reading of the clock.
Init ==
  SplitIdle /\ SendIdle /\ AsyncIdle /\ ClientIdle /\ RestIdle /\ ServerInit({"j1"})

\* A chunked upload and a single-payload capture.
InitJobs ==
  SplitIdle /\ SendIdle /\ AsyncIdle /\ ClientIdle /\ RestIdle /\ ServerInit(JobIds)

Next == PostIngest \/ GetJob \/ Cleanup

Spec == Init /\ [][Next]_vars

SpecJobs == InitJobs /\ [][Next]_vars

\* app.post('/ingest') for a capture without its page object.
PostPageless ==
  \E payload \in PagelessMessages :
    /\ payload.jobId \in jobIds
    /\ Ingest(payload)
    /\ UNCHANGED <<splitVars, asyncVars, clientVars, sendVars, restVars>>

NextPageless == PostIngest \/ PostPageless \/ GetJob \/ Cleanup

\* The server that also receives captures without a page object.
SpecPageless == Init /\ [][NextPageless]_vars

\* The cleanup timeout fires, and the deletion is remembered.
CleanupRecorded ==
  \E j \in JobIds :
    /\ CleanupOf(j)
    /\ evicted' = evicted \cup {j}
    /\ UNCHANGED <<splitVars, asyncVars, clientVars, sendVars, listVars, configVars, dashVars>>

NextEvicting == PostIngest \/ GetJob \/ CleanupRecorded

\* The server with the record of its evictions.
SpecEvicting == Init /\ [][NextEvicting]_vars

NextTimed == PostIngest \/ GetJob \/ Cleanup \/ Tick

SpecTimed == Init /\ [][NextTimed]_vars

\* ------------------------------------ the server at its await points
\* The same handlers, cut where the code awaits: the chunk handler at
\* 'await reassembleChunks' and at 'await processCompleteCapture', the
\* finalization at the .then of reassembleChunks. Both functions are async
\* without an await of their own, so each runs to its end when called and the
\* caller is suspended afterwards. Here any request may be served while a
\* handler is suspended, which is more than Node's scheduling permits. The
\* cleanup timeout, 60 s after processing, waits for the suspended handlers of
\* its job.

Suspended(kind, pc, payload) == [kind |-> kind, pc |-> pc, payload |-> payload]

PendingFor(j) == {k \in 1..Len(pending) : pending[k].payload.jobId = j}

Without(k) == SubSeq(pending, 1, k - 1) \o SubSeq(pending, k + 1, Len(pending))

\* processCompleteCapture(jobId, capture), to its end.
ProcessCompleteCapture(j) ==
  /\ timers' = IF chunkStore[j].hasPage THEN [timers EXCEPT ![j] = @ + 1] ELSE timers
  /\ triggers' = [triggers EXCEPT ![j].processed = @ + 1]

\* The chunk handler up to its first await, or to its response when the chunk
\* does not complete the job.
AsyncChunk(payload) ==
  LET j == payload.jobId
      store == IF Has(j) THEN chunkStore ELSE chunkStore @@ (j :> NewJob(payload))
      entries == MapSet(store[j].chunks, payload.index, payload.html)
      stored == [store[j] EXCEPT !.chunks = entries,
                                 !.receivedChunks = CountReceived(store[j], entries)]
  IN  /\ TotalReceived < MaxReceived
      /\ IF stored.receivedChunks = stored.totalExpected
         THEN /\ Len(pending) < MaxPending
              /\ chunkStore' = [store EXCEPT ![j] = ReassembleChunks(stored)]
              /\ triggers' = [triggers EXCEPT ![j].reassembled = @ + 1]
              /\ pending' = Append(pending, Suspended("chunk", "reassembled", payload))
              /\ UNCHANGED <<res, reported>>
         ELSE /\ chunkStore' = [store EXCEPT ![j] = stored]
              /\ res' = Ack(payload, stored)
              /\ reported' = Report(j, res'.isComplete, FALSE)
              /\ UNCHANGED <<pending, triggers>>
      /\ UNCHANGED timers

\* handleFinalization up to its response; the .then callback stays pending.
AsyncFinalization(payload) ==
  LET j == payload.jobId
  IN  IF ~Has(j)
      THEN /\ res' = ErrorResponse(404)
           /\ UNCHANGED <<chunkStore, timers, reported, pending, triggers>>
      ELSE LET marked == [chunkStore[j] EXCEPT !.finalized = TRUE, !.finalizedAt = now]
               tryNow == ~marked.reassembled
                         /\ marked.receivedChunks = marked.totalExpected
               jobData == IF tryNow THEN ReassembleChunks(marked) ELSE marked
           IN  /\ tryNow => Len(pending) < MaxPending
               /\ chunkStore' = [chunkStore EXCEPT ![j] = jobData]
               /\ triggers' = IF tryNow
                              THEN [triggers EXCEPT ![j].reassembled = @ + 1]
                              ELSE triggers
               /\ pending' = IF tryNow
                             THEN Append(pending, Suspended("finalization", "reassembled", payload))
                             ELSE pending
               /\ res' = [kind |-> "finalized", status |-> 200, jobId |-> j,
                          chunksReceived |-> jobData.receivedChunks,
                          totalExpected |-> jobData.totalExpected]
               /\ reported' = Report(j, FALSE, TRUE)
               /\ UNCHANGED timers

\* app.post('/ingest') up to the first await of its handler.
AsyncIngest ==
  \E payload \in Payloads :
    /\ payload.jobId \in jobIds \cup {""}
    /\ IF ~payload.version
       THEN /\ res' = ErrorResponse(400)
            /\ UNCHANGED <<chunkStore, timers, reported, pending, triggers>>
       ELSE IF payload.type = "finalization"
       THEN AsyncFinalization(payload)
       ELSE IF ~payload.hasChunk \/ payload.jobId = ""
       THEN /\ res' = ErrorResponse(400)
            /\ UNCHANGED <<chunkStore, timers, reported, pending, triggers>>
       ELSE AsyncChunk(payload)
    /\ req' = Request("POST /ingest", payload.type, payload.jobId)
    /\ UNCHANGED <<jobIds, now>>
    /\ UNCHANGED <<splitVars, clientVars, sendVars, restVars>>

\* A suspended handler runs to its next await or to its end.
Resume ==
  \E k \in 1..Len(pending) :
    LET h == pending[k]
        j == h.payload.jobId
    IN  /\ IF h.pc = "reassembled"
           THEN \* if (reassembledCapture) processCompleteCapture(jobId, ...)
                /\ ProcessCompleteCapture(j)
                /\ pending' = IF h.kind = "chunk" /\ chunkStore[j].hasPage
                              THEN [pending EXCEPT ![k].pc = "processed"]
                              ELSE Without(k)
                /\ IF h.kind = "chunk" /\ ~chunkStore[j].hasPage
                   THEN \* catch (error): res.status(500)
                        /\ res' = ErrorResponse(500)
                        /\ req' = Request("POST /ingest", h.payload.type, j)
                   ELSE UNCHANGED <<req, res>>
                /\ UNCHANGED <<chunkStore, reported>>
           ELSE \* res.status(202).json(...)
                /\ res' = Ack(h.payload, chunkStore[j])
                /\ req' = Request("POST /ingest", h.payload.type, j)
                /\ reported' = Report(j, res'.isComplete, FALSE)
                /\ pending' = Without(k)
                /\ UNCHANGED <<chunkStore, timers, triggers>>
        /\ UNCHANGED <<jobIds, now>>
        /\ UNCHANGED <<splitVars, clientVars, sendVars, restVars>>

\* The cleanup timeout fires once no handler of its job is suspended.
AsyncCleanup ==
  \E j \in JobIds :
    /\ PendingFor(j) = {}
    /\ CleanupOf(j)
    /\ triggers' = [triggers EXCEPT ![j] = [reassembled |-> 0, processed |-> 0]]
    /\ UNCHANGED pending
    /\ UNCHANGED <<splitVars, clientVars, sendVars, restVars>>

NextAsync == AsyncIngest \/ Resume \/ AsyncCleanup

SpecAsync == Init /\ [][NextAsync]_vars

\* ------------------------------------------------ the integration client
\* testChunkSubmission submits chunk 1 of 2, chunk 2 of 2, the finalization and
\* the status query of one job, awaiting each before the next; a rejected
\* request is caught and ends the process with code 1. Its server also serves
\* the single-payload captures of other clients (job j2).

\* jobId: job_test_<Date.now()>_abc123
ClientJob == "j1"

Requests == <<"chunk1", "chunk2", "finalization", "status">>

\* The bodies submitChunk posts.
ClientPayload(request) ==
  CASE request = "chunk1" ->
         [version |-> TRUE, type |-> "chunk", hasChunk |-> TRUE, jobId |-> ClientJob,
          index |-> 0, count |-> 2, total |-> 2, html |-> <<"a">>, hasPage |-> TRUE]
    [] request = "chunk2" ->
         [version |-> TRUE, type |-> "chunk", hasChunk |-> TRUE, jobId |-> ClientJob,
          index |-> 1, count |-> 2, total |-> 2, html |-> <<"b">>, hasPage |-> TRUE]
    [] request = "finalization" ->
         [version |-> TRUE, type |-> "finalization", hasChunk |-> TRUE, jobId |-> ClientJob,
          index |-> -1, count |-> 2, total |-> 2, html |-> <<>>, hasPage |-> FALSE]

\* A client that goes from the last chunk straight to the status query.
AfterSkipsFinalization(request) ==
  CASE request = "chunk1" -> "chunk2"
    [] request = "chunk2" -> "status"
    [] request = "finalization" -> "status"
    [] request = "status" -> "done"

\* The statement after the await of a request.
After(request) ==
  CASE request = "chunk1" -> "chunk2"
    [] request = "chunk2" -> "finalization"
    [] request = "finalization" -> "status"
    [] request = "status" -> "done"

Sent(request, outcome) == [request |-> request, outcome |-> outcome]

Submitting == clientPc \in {"chunk1", "chunk2", "finalization"}

\* A client that submits without awaiting the request before.
ClientSubmitUnawaited ==
  /\ Submitting
  /\ Ingest(ClientPayload(clientPc))
  /\ sent' = Append(sent, Sent(clientPc, "pending"))
  /\ awaiting' = [settled |-> "response", status |-> res'.status]
  /\ UNCHANGED <<clientPc, exitCode>>
  /\ UNCHANGED <<splitVars, asyncVars, sendVars, restVars>>

\* await submitChunk(payload): the request is written and the server handles it.
ClientSubmit ==
  /\ Submitting
  /\ awaiting = NoOutcome
  /\ Ingest(ClientPayload(clientPc))
  /\ sent' = Append(sent, Sent(clientPc, "pending"))
  /\ awaiting' = [settled |-> "response", status |-> res'.status]
  /\ UNCHANGED <<clientPc, exitCode>>
  /\ UNCHANGED <<splitVars, asyncVars, sendVars, restVars>>

\* await getJobStatus(jobId)
ClientQuery ==
  /\ clientPc = "status"
  /\ awaiting = NoOutcome
  /\ GetJobFor(ClientJob)
  /\ sent' = Append(sent, Sent(clientPc, "pending"))
  /\ awaiting' = [settled |-> "response", status |-> res'.status]
  /\ UNCHANGED <<clientPc, exitCode>>
  /\ UNCHANGED <<splitVars, asyncVars, sendVars, restVars>>

\* req.on('error'): the request does not reach the server.
ClientRequestError ==
  /\ clientPc \in {"chunk1", "chunk2", "finalization", "status"}
  /\ awaiting = NoOutcome
  /\ sent' = Append(sent, Sent(clientPc, "pending"))
  /\ awaiting' = [settled |-> "error", status |-> 0]
  /\ UNCHANGED <<clientPc, exitCode>>
  /\ UNCHANGED <<splitVars, serverVars, asyncVars, sendVars, restVars>>

\* resolve(response) for a 2xx status, reject(...) otherwise.
Resolves(outcome) ==
  /\ outcome.settled = "response"
  /\ outcome.status >= 200
  /\ outcome.status < 300

\* A client whose catch block logs the error and carries on.
ClientSettleCarriesOn ==
  /\ awaiting # NoOutcome
  /\ sent' = [sent EXCEPT ![Len(sent)].outcome =
                 IF Resolves(awaiting) THEN "resolved" ELSE "rejected"]
  /\ clientPc' = After(clientPc)
  /\ exitCode' = IF Resolves(awaiting) THEN exitCode ELSE 1
  /\ awaiting' = NoOutcome
  /\ UNCHANGED <<splitVars, serverVars, asyncVars, sendVars, restVars>>

\* The awaited promise settles: the next statement runs, or the catch block
\* with console.error and process.exit(1).
ClientSettle ==
  /\ awaiting # NoOutcome
  /\ IF Resolves(awaiting)
     THEN /\ sent' = [sent EXCEPT ![Len(sent)].outcome = "resolved"]
          /\ clientPc' = After(clientPc)
          /\ UNCHANGED exitCode
     ELSE /\ sent' = [sent EXCEPT ![Len(sent)].outcome = "rejected"]
          /\ clientPc' = "exited"
          /\ exitCode' = 1
  /\ awaiting' = NoOutcome
  /\ UNCHANGED <<splitVars, serverVars, asyncVars, sendVars, restVars>>

InitClient ==
  /\ SplitIdle
  /\ RestIdle
  /\ SendIdle
  /\ AsyncIdle
  /\ ServerInit(JobIds \ {ClientJob})
  /\ clientPc = "chunk1"
  /\ sent = <<>>
  /\ awaiting = NoOutcome
  /\ exitCode = 0

NextClient ==
  \/ ClientSubmit
  \/ ClientQuery
  \/ ClientRequestError
  \/ ClientSettle
  \/ PostIngest
  \/ Cleanup

SpecClient == InitClient /\ [][NextClient]_vars

\* ------------------------------------------------- the transport selector

\* const methods = [sendViaFetch, sendViaBeacon, sendViaFormPost]
Methods == <<"fetch", "beacon", "form-post">>

\* An error is its name and its message, the message as its words.
Err(name, message) == [name |-> name, message |-> message]

\* What the browser throws when the page's policy refuses a transport, and an
\* error of its own that has nothing to do with the policy.
BrowserErrors ==
  {Err("SecurityError", <<"Refused", "by", "the", "Content", "Security", "Policy">>),
   Err("Error", <<"Blocked", "by", "CSP">>),
   Err("TypeError", <<"Load", "failed">>)}

\* The errors each method throws itself.
ThrownBy(method) ==
  CASE method = "fetch" ->
         {Err("TypeError", <<"Failed", "to", "fetch">>),
          Err("Error", <<"HTTP", "500">>)}
    [] method = "beacon" ->
         {Err("Error", <<"Payload", "too", "large", "for", "sendBeacon">>),
          Err("Error", <<"sendBeacon", "failed">>)}
    [] method = "form-post" ->
         {Err("Error", <<"Form", "post", "iframe", "failed", "to", "load">>),
          Err("Error", <<"Form", "post", "timeout">>)}

\* The value a method resolves with: fetch the server's JSON, the others the
\* name of the method.
Resolved(method) ==
  [success |-> TRUE, error |-> "", guidance |-> FALSE,
   data |-> IF method = "fetch"
            THEN [method |-> "", response |-> TRUE]
            ELSE [method |-> method, response |-> FALSE]]

\* String.prototype.toLowerCase, word by word.
LowerWord(w) ==
  CASE w = "Refused" -> "refused"
    [] w = "Content" -> "content"
    [] w = "Security" -> "security"
    [] w = "Policy" -> "policy"
    [] w = "Blocked" -> "blocked"
    [] w = "CSP" -> "csp"
    [] w = "Load" -> "load"
    [] w = "Failed" -> "failed"
    [] w = "HTTP" -> "http"
    [] w = "Payload" -> "payload"
    [] w = "sendBeacon" -> "sendbeacon"
    [] w = "Form" -> "form"
    [] OTHER -> w

ToLowerCase(message) == [k \in 1..Len(message) |-> LowerWord(message[k])]

\* String.prototype.includes, on words.
Includes(message, words) ==
  \E k \in 1..(Len(message) - Len(words) + 1) :
    SubSeq(message, k, k + Len(words) - 1) = words

\* isCSPError
IsCSPError(error) ==
  LET message == ToLowerCase(error.message)
  IN  \/ Includes(message, <<"csp">>)
      \/ Includes(message, <<"content", "security", "policy">>)
      \/ Includes(message, <<"blocked", "by", "content", "security", "policy">>)
      \/ (error.name = "TypeError" /\ Includes(message, <<"failed", "to", "fetch">>))

\* The call sendWithFallbacks(pageData).
SendStart ==
  /\ sendPc = "idle"
  /\ sendPc' = "loop"
  /\ i' = 0
  /\ UNCHANGED <<attempts, sendResult>>
  /\ UNCHANGED <<splitVars, serverVars, asyncVars, clientVars, restVars>>

\* A success that is recorded but does not end the loop.
SucceededContinues(result) ==
  /\ attempts' = Append(attempts, [method |-> Methods[i + 1], error |-> NoError])
  /\ i' = i + 1
  /\ UNCHANGED <<sendPc, sendResult>>

\* methods[i]() resolved with result.
Succeeded(result) ==
  /\ attempts' = Append(attempts, [method |-> Methods[i + 1], error |-> NoError])
  /\ sendResult' = result
  /\ sendPc' = "returned"
  /\ i' = i

\* A catch block that escalates on a policy block only and ends the send on any
\* other error.
CaughtStopsOnTransient(error) ==
  /\ attempts' = Append(attempts, [method |-> Methods[i + 1], error |-> error])
  /\ IF IsCSPError(error)
     THEN IF i = Len(Methods) - 1
          THEN /\ sendResult' = [NoResult EXCEPT !.error = "CSP_BLOCKED",
                                                 !.guidance = TRUE]
               /\ sendPc' = "returned"
               /\ i' = i
          ELSE /\ i' = i + 1
               /\ UNCHANGED <<sendPc, sendResult>>
     ELSE /\ sendResult' = [NoResult EXCEPT !.error = "thrown"]
          /\ sendPc' = "threw"
          /\ i' = i

\* A catch block that tries the failed method again.
CaughtRetries(error) ==
  /\ attempts' = Append(attempts, [method |-> Methods[i + 1], error |-> error])
  /\ Len(attempts) < 2 * Len(Methods)
  /\ UNCHANGED <<i, sendPc, sendResult>>

\* A catch block that blames the policy for whatever the last method threw.
CaughtBlamesPolicy(error) ==
  /\ attempts' = Append(attempts, [method |-> Methods[i + 1], error |-> error])
  /\ IF i = Len(Methods) - 1
     THEN /\ sendResult' = [NoResult EXCEPT !.error = "CSP_BLOCKED",
                                            !.guidance = TRUE]
          /\ sendPc' = "returned"
          /\ i' = i
     ELSE /\ i' = i + 1
          /\ UNCHANGED <<sendPc, sendResult>>

\* methods[i]() threw error: the catch block.
Caught(error) ==
  /\ attempts' = Append(attempts, [method |-> Methods[i + 1], error |-> error])
  /\ IF IsCSPError(error)
     THEN IF i = Len(Methods) - 1
          THEN /\ sendResult' = [NoResult EXCEPT !.error = "CSP_BLOCKED",
                                                 !.guidance = TRUE]
               /\ sendPc' = "returned"
               /\ i' = i
          ELSE /\ i' = i + 1
               /\ UNCHANGED <<sendPc, sendResult>>
     ELSE IF i < Len(Methods) - 1
          THEN /\ i' = i + 1
               /\ UNCHANGED <<sendPc, sendResult>>
          ELSE /\ sendResult' = [NoResult EXCEPT !.error = "thrown"]
               /\ sendPc' = "threw"
               /\ i' = i

\* One pass of the for loop: await methods[i](), which resolves or throws. No
\* method resolves without success, so the return after the loop is never reached.
TryMethod ==
  /\ sendPc = "loop"
  /\ i < Len(Methods)
  /\ \/ Succeeded(Resolved(Methods[i + 1]))
     \/ \E error \in ThrownBy(Methods[i + 1]) \cup BrowserErrors : Caught(error)
  /\ UNCHANGED <<splitVars, serverVars, asyncVars, clientVars, restVars>>

InitSend == SplitIdle /\ ServerIdle /\ AsyncIdle /\ ClientIdle /\ RestIdle /\ SendIdle

NextSend == SendStart \/ TryMethod

SpecSend == InitSend /\ [][NextSend]_vars

\* ------------------------------------------------------ the site allowlist
\* SwerveAllowlist keeps a mode and two pattern lists in localStorage. A host
\* name and a domain pattern are their labels; "*" is the wildcard label.

Modes == {"disabled", "allowlist", "denylist"}

ListTypes == {"allowlist", "denylist"}

Patterns == {<<"Example", "com">>, <<"*", "example", "com">>}

Hosts == {<<"example", "com">>, <<"www", "example", "com">>, <<"other", "org">>}

Json(list) == [kind |-> "json", value |-> list]

Corrupt == [kind |-> "corrupt", value |-> <<>>]

\* String.prototype.toLowerCase, label by label.
LowerLabel(label) == IF label = "Example" THEN "example" ELSE label

LowerHost(host) == [k \in 1..Len(host) |-> LowerLabel(host[k])]

\* getMode: localStorage.getItem(MODE) || defaultMode
GetMode == IF storedMode = "" THEN "disabled" ELSE storedMode

\* getList: stored ? JSON.parse(stored) : [], and [] when that throws.
GetList(type) ==
  IF storedLists[type].kind = "json" THEN storedLists[type].value ELSE <<>>

Includes1(list, pattern) == \E k \in 1..Len(list) : list[k] = pattern

\* list.splice(list.indexOf(pattern), 1)
Spliced(list, pattern) ==
  LET index == CHOOSE k \in 1..Len(list) :
                 list[k] = pattern /\ \A m \in 1..(k - 1) : list[m] # pattern
  IN  SubSeq(list, 1, index - 1) \o SubSeq(list, index + 1, Len(list))

\* matchesPattern for a domain pattern: with a wildcard, the regular
\* expression ^.*\.rest$ (flag i) on the hostname; without, equality of the
\* lower-cased hostname and pattern.
MatchesPattern(host, pattern) ==
  IF \E k \in 1..Len(pattern) : pattern[k] = "*"
  THEN LET rest == LowerHost(Tail(pattern))
           h == LowerHost(host)
       IN  /\ Len(h) > Len(rest)
           /\ SubSeq(h, Len(h) - Len(rest) + 1, Len(h)) = rest
  ELSE LowerHost(host) = LowerHost(pattern)

\* setMode
SetMode ==
  \E mode \in Modes :
    /\ storedMode' = mode
    /\ checked' = NoCheck
    /\ UNCHANGED storedLists
    /\ UNCHANGED <<splitVars, serverVars, asyncVars, clientVars, sendVars, evicted,
                 configVars, dashVars>>

\* saveList: localStorage.setItem succeeds, or throws (quota) and nothing is
\* stored.
SaveList(type, list) ==
  \/ storedLists' = [storedLists EXCEPT ![type] = Json(list)]
  \/ UNCHANGED storedLists

\* addPattern
AddPattern ==
  \E type \in ListTypes, pattern \in Patterns :
    /\ IF ~Includes1(GetList(type), pattern)
       THEN SaveList(type, Append(GetList(type), pattern))
       ELSE UNCHANGED storedLists
    /\ checked' = NoCheck
    /\ UNCHANGED storedMode
    /\ UNCHANGED <<splitVars, serverVars, asyncVars, clientVars, sendVars, evicted,
                 configVars, dashVars>>

\* removePattern
RemovePattern ==
  \E type \in ListTypes, pattern \in Patterns :
    /\ IF Includes1(GetList(type), pattern)
       THEN SaveList(type, Spliced(GetList(type), pattern))
       ELSE UNCHANGED storedLists
    /\ checked' = NoCheck
    /\ UNCHANGED storedMode
    /\ UNCHANGED <<splitVars, serverVars, asyncVars, clientVars, sendVars, evicted,
                 configVars, dashVars>>

Verdict(mode, host, allowed, reason) ==
  [mode |-> mode, host |-> host, allowed |-> allowed, reason |-> reason]

\* isAllowed
IsAllowed ==
  \E host \in Hosts :
    LET mode == GetMode
        allowlist == GetList("allowlist")
        denylist == GetList("denylist")
    IN  /\ checked' =
             IF mode = "disabled" THEN Verdict(mode, host, TRUE, "")
             ELSE IF mode = "allowlist"
             THEN IF Len(allowlist) = 0 THEN Verdict(mode, host, TRUE, "")
                  ELSE IF \E k \in 1..Len(allowlist) : MatchesPattern(host, allowlist[k])
                  THEN Verdict(mode, host, TRUE, "")
                  ELSE Verdict(mode, host, FALSE, "Site not in allowlist")
             ELSE IF \E k \in 1..Len(denylist) : MatchesPattern(host, denylist[k])
             THEN Verdict(mode, host, FALSE, "Site is blocked by denylist")
             ELSE Verdict(mode, host, TRUE, "")
        /\ UNCHANGED <<storedMode, storedLists>>
        /\ UNCHANGED <<splitVars, serverVars, asyncVars, clientVars, sendVars, evicted,
                 configVars, dashVars>>

\* The storage as the page finds it: no list, or an item that is no JSON.
InitAllowlist ==
  /\ SplitIdle /\ ServerIdle /\ AsyncIdle /\ ClientIdle /\ SendIdle
  /\ evicted = {} /\ ConfigIdle /\ DashIdle
  /\ storedMode = ""
  /\ storedLists \in [ListTypes -> {Absent, Corrupt}]
  /\ checked = NoCheck

NextAllowlist == SetMode \/ AddPattern \/ RemovePattern \/ IsAllowed

SpecAllowlist == InitAllowlist /\ [][NextAllowlist]_vars

\* ---------------------------------------------------- the configuration
\* SwerveConfig of src/config.js.  Objects are shared, not copied, by the
\* spread `{ ...object }`: config.shared names the fields of config.privacy
\* that are the very objects of defaultConfig.privacy; a field not named
\* there is an object of config's own, held in config itself.

\* The selectors and pattern names the page passes.
Selectors == {".ad", ".swerve-preview"}

PatternNames == {"iban", "email"}

PatternsOf(c, default) ==
  IF "patterns" \in c.shared THEN default.patterns ELSE c.patterns

SelectorsOf(c, default) ==
  IF "excludeSelectors" \in c.shared THEN default.excludeSelectors
  ELSE c.excludeSelectors

\* What config holds, as JSON.stringify writes it and JSON.parse reads it
\* back: the contents, in objects of their own.
ValueOf(c, default) ==
  [visualIndicators |-> c.visualIndicators,
   patterns         |-> PatternsOf(c, default),
   excludeSelectors |-> SelectorsOf(c, default)]

\* A user configuration: the fields it has, and their values.
UserConfig(has, value) == [has |-> has, value |-> value]

Full(value) == UserConfig({"visualIndicators"} \cup Shareable, value)

Names(patterns) == {p.name : p \in patterns}

\* mergeConfig on the patterns object: an entry of the user's replaces the
\* entry of that name, the other entries are kept.
MergePatterns(patterns, user) ==
  user \cup {p \in patterns : p.name \notin Names(user)}

\* mergeConfig: a spread of the target, then one assignment per key of the
\* user configuration; an object is merged into a new one, an array or a
\* primitive replaces the target's.
MergeConfig(target, user, default) ==
  [visualIndicators |->
     IF "visualIndicators" \in user.has THEN user.value.visualIndicators
     ELSE target.visualIndicators,
   shared           |-> target.shared \ user.has,
   patterns         |->
     IF "patterns" \in user.has
     THEN MergePatterns(PatternsOf(target, default), user.value.patterns)
     ELSE target.patterns,
   excludeSelectors |->
     IF "excludeSelectors" \in user.has THEN user.value.excludeSelectors
     ELSE target.excludeSelectors]

Stored(value) == [state |-> "json", value |-> value]

Called(method, value) == [method |-> method, value |-> value]

\* loadConfig: the stored configuration merged over the defaults, or a
\* spread of the defaults when nothing is stored or it fails to parse.
LoadConfig(stored, default) ==
  IF stored.state = "json"
  THEN MergeConfig(ShallowCopy(default), Full(stored.value), default)
  ELSE ShallowCopy(default)

\* saveConfig, after the method has changed config: the item is rewritten,
\* localStorage taking it.
SaveConfig == storedConfig' = Stored(ValueOf(config', defaultConfig'))

ConfigFrame ==
  UNCHANGED <<splitVars, serverVars, asyncVars, clientVars, sendVars,
              evicted, listVars, dashVars>>

\* The updates a page passes to update().
Updates ==
  { UserConfig({"visualIndicators"}, [DefaultConfig EXCEPT !.visualIndicators = FALSE]),
    UserConfig({"excludeSelectors"}, [DefaultConfig EXCEPT !.excludeSelectors = <<".ad">>]),
    UserConfig({"patterns"},
               [DefaultConfig EXCEPT !.patterns =
                  {[name |-> "email", enabled |-> FALSE, custom |-> FALSE]}]) }

Update ==
  \E updates \in Updates :
    /\ config' = MergeConfig(config, updates, defaultConfig)
    /\ UNCHANGED defaultConfig
    /\ SaveConfig
    /\ returned' = Called("update", TRUE)
    /\ ConfigFrame

\* reset: config becomes a spread of this.defaultConfig, as it is by now.
Reset ==
  /\ config' = ShallowCopy(defaultConfig)
  /\ UNCHANGED defaultConfig
  /\ SaveConfig
  /\ returned' = Called("reset", TRUE)
  /\ ConfigFrame

\* The patterns object is changed in place: it is defaultConfig's own when
\* config shares it.
SetPatterns(patterns) ==
  IF "patterns" \in config.shared
  THEN /\ defaultConfig' = [defaultConfig EXCEPT !.patterns = patterns]
       /\ UNCHANGED config
  ELSE /\ config' = [config EXCEPT !.patterns = patterns]
       /\ UNCHANGED defaultConfig

SetSelectors(selectors) ==
  IF "excludeSelectors" \in config.shared
  THEN /\ defaultConfig' = [defaultConfig EXCEPT !.excludeSelectors = selectors]
       /\ UNCHANGED config
  ELSE /\ config' = [config EXCEPT !.excludeSelectors = selectors]
       /\ UNCHANGED defaultConfig

Refused(method) ==
  /\ returned' = Called(method, FALSE)
  /\ UNCHANGED <<defaultConfig, config, storedConfig>>

AddCustomPattern ==
  \E name \in PatternNames :
    /\ IF name \notin Names(PatternsOf(config, defaultConfig))
       THEN SetPatterns(PatternsOf(config, defaultConfig)
                        \cup {[name |-> name, enabled |-> TRUE, custom |-> TRUE]})
       ELSE UNCHANGED <<defaultConfig, config>>
    /\ SaveConfig
    /\ returned' = Called("addCustomPattern", TRUE)
    /\ ConfigFrame

RemoveCustomPattern ==
  \E name \in PatternNames :
    LET patterns == PatternsOf(config, defaultConfig)
        custom   == {p \in patterns : p.name = name /\ p.custom}
    IN  /\ IF custom # {}
           THEN /\ SetPatterns(patterns \ custom)
                /\ SaveConfig
                /\ returned' = Called("removeCustomPattern", TRUE)
           ELSE Refused("removeCustomPattern")
        /\ ConfigFrame

AddExcludeSelector ==
  \E selector \in Selectors :
    LET selectors == SelectorsOf(config, defaultConfig)
    IN  /\ IF ~Includes1(selectors, selector)
           THEN /\ SetSelectors(Append(selectors, selector))
                /\ SaveConfig
                /\ returned' = Called("addExcludeSelector", TRUE)
           ELSE Refused("addExcludeSelector")
        /\ ConfigFrame

RemoveExcludeSelector ==
  \E selector \in Selectors :
    LET selectors == SelectorsOf(config, defaultConfig)
    IN  /\ IF Includes1(selectors, selector)
           THEN /\ SetSelectors(Spliced(selectors, selector))
                /\ SaveConfig
                /\ returned' = Called("removeExcludeSelector", TRUE)
           ELSE Refused("removeExcludeSelector")
        /\ ConfigFrame

\* The texts a page passes to import(): what export() returns now, a
\* configuration with one field, and a text that is no JSON.
Import ==
  \E text \in {"exported", "partial", "invalid"} :
    /\ IF text = "invalid"
       THEN Refused("import")
       ELSE LET imported ==
                  IF text = "exported" THEN Full(ValueOf(config, defaultConfig))
                  ELSE UserConfig({"visualIndicators"},
                                  [DefaultConfig EXCEPT !.visualIndicators = FALSE])
            IN  /\ config' = MergeConfig(ShallowCopy(defaultConfig), imported,
                                         defaultConfig)
                /\ UNCHANGED defaultConfig
                /\ SaveConfig
                /\ returned' = Called("import", TRUE)
    /\ ConfigFrame

\* What localStorage holds when the page constructs its SwerveConfig.
StoredConfigs ==
  { NoStoredConfig,
    [state |-> "corrupt", value |-> DefaultConfig],
    Stored(DefaultConfig),
    Stored([DefaultConfig EXCEPT !.excludeSelectors = Append(DefaultSelectors, ".ad")]) }

InitConfig ==
  /\ SplitIdle /\ ServerIdle /\ AsyncIdle /\ ClientIdle /\ SendIdle
  /\ evicted = {} /\ ListIdle /\ DashIdle
  /\ defaultConfig = DefaultConfig
  /\ storedConfig \in StoredConfigs
  /\ config = LoadConfig(storedConfig, defaultConfig)
  /\ returned = NoCall

NextConfig ==
  \/ Update \/ Reset \/ Import
  \/ AddCustomPattern \/ RemoveCustomPattern
  \/ AddExcludeSelector \/ RemoveExcludeSelector

SpecConfig == InitConfig /\ [][NextConfig]_vars

\* ------------------------------------------------- the dashboard server
\* The job store of server.js and the two timers of simulateProcessing.  A
\* jobId `job_${Date.now()}_${jobCounter++}` is told apart from every other
\* by its counter, which stands for it here.

Reply(route, jobId, code, status) ==
  [route |-> route, jobId |-> jobId, code |-> code, status |-> status]

DashFrame ==
  UNCHANGED <<splitVars, serverVars, asyncVars, clientVars, sendVars,
              evicted, listVars, configVars>>

\* The jobIds a client asks about: those handed out and one never handed out.
Asked == 1..(MaxJobs + 1)

Timer(jobId, stage) == [jobId |-> jobId, stage |-> stage]

\* jobs.set(jobId, job)
SetJob(jobId, job) ==
  [id \in DOMAIN jobs \cup {jobId} |-> IF id = jobId THEN job ELSE jobs[id]]

\* POST /ingest under a jobId that is the lowest one not in the store.
DashIngestReusesId ==
  \E hasPage \in BOOLEAN :
    LET jobId == CHOOSE id \in 1..MaxJobs :
                   id \notin DOMAIN jobs /\ \A m \in 1..(id - 1) : m \in DOMAIN jobs
    IN  /\ running
        /\ jobCounter <= MaxJobs
        /\ \E id \in 1..MaxJobs : id \notin DOMAIN jobs
        /\ jobs' = SetJob(jobId, [status |-> JobStatus.PENDING, hasPage |-> hasPage])
        /\ jobCounter' = jobCounter + 1
        /\ dashTimers' = dashTimers \cup {Timer(jobId, "start")}
        /\ reply' = Reply("POST /ingest", jobId, 202, "")
        /\ UNCHANGED running
        /\ DashFrame

\* POST /ingest: a pending job under a fresh jobId, its first timer set.
\* hasPage: whether the body has a page object.
DashIngest ==
  \E hasPage \in BOOLEAN :
    LET jobId == jobCounter
    IN  /\ running
        /\ jobCounter <= MaxJobs
        /\ jobs' = SetJob(jobId, [status |-> JobStatus.PENDING, hasPage |-> hasPage])
        /\ jobCounter' = jobCounter + 1
        /\ dashTimers' = dashTimers \cup {Timer(jobId, "start")}
        /\ reply' = Reply("POST /ingest", jobId, 202, "")
        /\ UNCHANGED running
        /\ DashFrame

\* The outer timeout of simulateProcessing fires.
ProcessingStarts ==
  \E timer \in dashTimers :
    /\ running
    /\ timer.stage = "start"
    /\ IF timer.jobId \in DOMAIN jobs
       THEN /\ jobs' = [jobs EXCEPT ![timer.jobId].status = JobStatus.PROCESSING]
            /\ dashTimers' = (dashTimers \ {timer}) \cup {Timer(timer.jobId, "finish")}
       ELSE /\ dashTimers' = dashTimers \ {timer}
            /\ UNCHANGED jobs
    /\ UNCHANGED <<jobCounter, reply, running>>
    /\ DashFrame

\* The inner timeout fires.  Building the result of a completed job reads
\* data.page.title: without a page the callback throws after the status is
\* assigned, and the uncaught exception ends the process.
ProcessingEnds ==
  \E timer \in dashTimers, status \in {JobStatus.COMPLETED, JobStatus.FAILED} :
    /\ running
    /\ timer.stage = "finish"
    /\ dashTimers' = dashTimers \ {timer}
    /\ IF timer.jobId \in DOMAIN jobs
       THEN /\ jobs' = [jobs EXCEPT ![timer.jobId].status = status]
            /\ running' = ~(status = JobStatus.COMPLETED /\ ~jobs[timer.jobId].hasPage)
       ELSE UNCHANGED <<jobs, running>>
    /\ UNCHANGED <<jobCounter, reply>>
    /\ DashFrame

\* GET /jobs/:jobId
DashGetJob ==
  \E jobId \in Asked :
    /\ running
    /\ reply' = IF jobId \in DOMAIN jobs
                THEN Reply("GET /jobs/:jobId", jobId, 200, jobs[jobId].status)
                ELSE Reply("GET /jobs/:jobId", jobId, 404, "")
    /\ UNCHANGED <<jobs, jobCounter, dashTimers, running>>
    /\ DashFrame

\* DELETE /jobs/:jobId
DashDeleteJob ==
  \E jobId \in Asked :
    /\ running
    /\ IF jobId \in DOMAIN jobs
       THEN /\ jobs' = [id \in DOMAIN jobs \ {jobId} |-> jobs[id]]
            /\ reply' = Reply("DELETE /jobs/:jobId", jobId, 200, "")
       ELSE /\ reply' = Reply("DELETE /jobs/:jobId", jobId, 404, "")
            /\ UNCHANGED jobs
    /\ UNCHANGED <<jobCounter, dashTimers, running>>
    /\ DashFrame

InitDash ==
  /\ SplitIdle /\ ServerIdle /\ AsyncIdle /\ ClientIdle /\ SendIdle
  /\ evicted = {} /\ ListIdle /\ ConfigIdle
  /\ DashIdle

NextDash ==
  \/ DashIngest \/ ProcessingStarts \/ ProcessingEnds
  \/ DashGetJob \/ DashDeleteJob

SpecDash == InitDash /\ [][NextDash]_vars

\* ------------------------------------------------------------ the claims

\* C1: round-trip law: joining the chunks splitIntoChunks returned, in list
\* order, yields exactly the original content (same length, same characters).
C1_RoundTrip ==
  splitPc = "joined" => /\ Len(joined) = Len(content)
                        /\ joined = content

\* A content of differing characters that needs several chunks, the last one
\* short, has been split and joined again.
C1_Witness ==
  /\ splitPc = "joined"
  /\ Len(chunks) >= 3
  /\ Len(content) % chunkSize # 0
  /\ \E k \in 1..(Len(content) - 1) : content[k] # content[k + 1]

InRange(jobData) == 0..(jobData.totalExpected - 1)

\* Every index 0..totalExpected-1 is stored, and no other.
AllPresent(jobData) == MapKeys(jobData.chunks) = InRange(jobData)

\* Each stored index was delivered once: as many deliveries as entries.
EachOnce(jobData) == jobData.receivedChunks = Len(jobData.chunks)

HtmlAt(jobData, index) ==
  (CHOOSE e \in {jobData.chunks[k] : k \in 1..Len(jobData.chunks)} : e.index = index).html

\* The chunk contents concatenated for index 0, 1, 2, ...
AscendingHtml(jobData) ==
  Join([k \in 1..jobData.totalExpected |-> HtmlAt(jobData, k - 1)])

\* The chunk contents concatenated as they arrived.
ArrivalHtml(jobData) ==
  Join([k \in 1..Len(jobData.chunks) |-> jobData.chunks[k].html])

\* C2: out-of-order reassembly: when the expectedTotal distinct chunks of a job,
\* indices 0..expectedTotal-1 each delivered once, have arrived in any order, the
\* reassembled html is the concatenation of the chunk contents in ascending
\* index order.
C2_OutOfOrder ==
  \A j \in DOMAIN chunkStore :
    LET jobData == chunkStore[j]
    IN  (jobData.reassembled /\ AllPresent(jobData) /\ EachOnce(jobData))
          => jobData.completeHtml = AscendingHtml(jobData)

\* Three chunks arrived with the first index last, and the arrival order would
\* have given another html.
C2_Witness ==
  /\ "j1" \in DOMAIN chunkStore
  /\ LET jobData == chunkStore["j1"]
     IN  /\ jobData.totalExpected = 3
         /\ jobData.reassembled /\ AllPresent(jobData) /\ EachOnce(jobData)
         /\ jobData.chunks[3].index = 0
         /\ ArrivalHtml(jobData) # AscendingHtml(jobData)

\* C3: completion requires every chunk: the job is complete (reassembled) exactly
\* when the number of distinct indices stored has reached expectedTotal,
\* duplicate deliveries included, so a reassembled job whose indices are all in
\* range holds every index 0..expectedTotal-1.
C3_CompleteHasEveryChunk ==
  \A j \in DOMAIN chunkStore :
    LET jobData == chunkStore[j]
        distinct == Cardinality(MapKeys(jobData.chunks))
    IN  /\ jobData.reassembled <=> distinct >= jobData.totalExpected
        /\ (jobData.reassembled /\ MapKeys(jobData.chunks) \subseteq InRange(jobData))
             => AllPresent(jobData)

\* A handler has just overwritten the content of an index job j already stored.
Overwrites(j) ==
  /\ j \in DOMAIN chunkStore /\ j \in DOMAIN chunkStore'
  /\ MapKeys(chunkStore'[j].chunks) = MapKeys(chunkStore[j].chunks)
  /\ chunkStore'[j].chunks # chunkStore[j].chunks

\* C4: idempotent duplicate delivery: a chunk for an index the job already
\* stored, with different content, leaves the received-chunk count unchanged,
\* and a reassembly uses the most recently received content of each index.
C4_DuplicateKeepsCount ==
  [][\A j \in JobIds :
       /\ Overwrites(j) =>
            chunkStore'[j].receivedChunks = chunkStore[j].receivedChunks
       /\ (j \in DOMAIN chunkStore' /\ chunkStore'[j].reassembled
           /\ (j \in DOMAIN chunkStore => ~chunkStore[j].reassembled)
           /\ AllPresent(chunkStore'[j]))
            => chunkStore'[j].completeHtml = AscendingHtml(chunkStore'[j])]_vars

\* C5: finalization ordering independence: when the finalization of a job was
\* acknowledged while chunks of its record were still missing, the handler of
\* the chunk that completes the indices 0..expectedTotal-1 leaves the job both
\* complete (reassembled) and finalized; no second finalization is needed.
C5_FinalizeBeforeLastChunk ==
  [][\A j \in JobIds :
       (/\ j \in DOMAIN chunkStore /\ j \in DOMAIN chunkStore'
        /\ reported[j].finalized
        /\ ~AllPresent(chunkStore[j])
        /\ AllPresent(chunkStore'[j]))
         => /\ chunkStore'[j].reassembled
            /\ chunkStore'[j].finalized]_vars

\* The last of three chunks has just been acknowledged as completing a job whose
\* finalization had been acknowledged before.
C5_Witness ==
  /\ "j1" \in DOMAIN chunkStore
  /\ res.kind = "ack" /\ res.isComplete
  /\ reported["j1"].finalized
  /\ LET jobData == chunkStore["j1"]
     IN  /\ jobData.totalExpected = 3
         /\ AllPresent(jobData) /\ EachOnce(jobData)
         /\ jobData.reassembled /\ jobData.finalized

Failed(k) == attempts[k].error # NoError

C7_TierOrder ==
  /\ Len(attempts) <= Len(Methods)
  /\ \A k \in 1..Len(attempts) :
       /\ attempts[k].method = Methods[k]
       /\ k < Len(attempts) => Failed(k)
  /\ sendPc = "loop" => i = Len(attempts)
  /\ (Len(attempts) > 0 /\ ~Failed(Len(attempts))) => sendPc = "returned"

\* fetch and sendBeacon failed, the form POST succeeded and the send returned.
C7_Witness ==
  /\ Len(attempts) = 3
  /\ Failed(1) /\ Failed(2) /\ ~Failed(3)
  /\ sendPc = "returned"

AllFailed == Len(attempts) = Len(Methods) /\ \A k \in 1..Len(attempts) : Failed(k)

PolicyBlockedBefore(k) ==
  \A m \in 1..(k - 1) : Failed(m) /\ IsCSPError(attempts[m].error)

\* C9: first success: when tiers 1..k-1 failed with PolicyBlocked and tier k
\* succeeded, the send returns success with the result of tier k; after two
\* policy blocks and a form POST success the method is 'form-post'.
C9_FirstSuccess ==
  LET k == Len(attempts)
  IN  (k > 0 /\ ~Failed(k) /\ PolicyBlockedBefore(k))
        => /\ sendPc = "returned"
           /\ sendResult.success
           /\ sendResult = Resolved(Methods[k])
           /\ k = 2 => sendResult.data.method = "beacon"
           /\ k = 3 => sendResult.data.method = "form-post"

\* fetch and sendBeacon were blocked by the policy and the form POST succeeded.
C9_Witness ==
  /\ Len(attempts) = 3
  /\ ~Failed(3) /\ PolicyBlockedBefore(3)
  /\ sendResult.data.method = "form-post"

\* The response is about job j's completeness.
TellsComplete(r, j) ==
  /\ r.kind \in {"ack", "status"}
  /\ r.jobId = j

SaysComplete(r) == IF r.kind = "ack" THEN r.isComplete ELSE r.completed

\* C10: job state is monotonic: once a response has reported the job complete
\* (isComplete true or status 'completed'), no later response for the same job
\* record reports it not complete, and once finalized was reported true it is
\* never reported false.
C10_Monotonic ==
  [][\A j \in JobIds :
       (j \in DOMAIN chunkStore /\ j \in DOMAIN chunkStore')
         => /\ (reported[j].complete /\ TellsComplete(res', j)) => SaysComplete(res')
            /\ (reported[j].finalized /\ res'.kind = "status" /\ res'.jobId = j)
                 => res'.finalized]_vars

\* ceil(n / c) for n >= 0, c >= 1.
CeilDiv(n, c) == (n + c - 1) \div c

Returned == splitPc \in {"returned", "joined"}

\* C12: chunk count law: for content of length N >= 0 and chunk size C >= 1,
\* splitIntoChunks returns ceil(N/C) chunks, and exactly one chunk whenever
\* N <= C, the empty content included.
C12_OneChunkUpToC ==
  Returned =>
    /\ Len(chunks) = CeilDiv(Len(content), chunkSize)
    /\ Len(content) <= chunkSize => Len(chunks) = 1

\* C12 as amended: splitIntoChunks returns ceil(N/C) chunks; that is exactly
\* one chunk whenever 1 <= N <= C, and no chunk at all for the empty content.
C12_ChunkCount ==
  Returned =>
    /\ Len(chunks) = CeilDiv(Len(content), chunkSize)
    /\ (1 <= Len(content) /\ Len(content) <= chunkSize) => Len(chunks) = 1
    /\ Len(content) = 0 => chunks = <<>>

\* The splitter returned for the empty content.
C12_Witness ==
  /\ splitPc = "returned"
  /\ content = <<>>
  /\ iterations = 0

\* C13: chunk sizes: in the returned list every chunk except possibly the last
\* has length exactly C, the last has length between 1 and C, and chunk i
\* (0-based) is exactly the range [i*C, min((i+1)*C, N)) of the content, the
\* ranges leaving no gap up to N.
C13_ChunkRanges ==
  Returned =>
    LET n == Len(chunks)
    IN  /\ \A k \in 1..n :
             /\ chunks[k] = SubSeq(content, (k - 1) * chunkSize + 1,
                                   Min(k * chunkSize, Len(content)))
             /\ k < n => Len(chunks[k]) = chunkSize
             /\ k = n => 1 <= Len(chunks[k]) /\ Len(chunks[k]) <= chunkSize
        /\ n * chunkSize >= Len(content)
        /\ n > 0 => (n - 1) * chunkSize < Len(content)

\* Three chunks were returned, the last one shorter than the chunk size.
C13_Witness ==
  /\ splitPc = "returned"
  /\ Len(chunks) = 3
  /\ Len(chunks[3]) < chunkSize

\* C14: expectedTotal is fixed by the first chunk of a job: a later chunk
\* message for the same jobId that declares a different total is rejected with
\* HTTP 400, the recorded totalExpected never changes, and the rejected chunk
\* is neither stored nor counted.
C14_TotalMismatchRejected ==
  [][/\ \A p \in ChunkMessages :
          (/\ Has(p.jobId)
           /\ TotalOrCount(p.total, p.count) # chunkStore[p.jobId].totalExpected
           /\ Ingest(p))
            => /\ res' = ErrorResponse(400)
               /\ chunkStore' = chunkStore
     /\ \A j \in DOMAIN chunkStore \cap DOMAIN chunkStore' :
          chunkStore'[j].totalExpected = chunkStore[j].totalExpected]_vars

\* The request just served asks about job j without delivering a chunk: a
\* status query or a finalization message.
AsksAbout(r, j) ==
  /\ r.jobId = j
  /\ \/ r.route = "GET /jobs/:jobId"
     \/ r.route = "POST /ingest" /\ r.type = "finalization"

\* C15: unknown job: a status query or a finalization message for a jobId that
\* has no record (never seen, or evicted) is answered with HTTP 404, and it
\* neither creates a job record nor changes any other job in the store.
C15_UnknownJob ==
  [][\A j \in JobIds :
       (~Has(j) /\ AsksAbout(req', j))
         => /\ res' = ErrorResponse(404)
            /\ chunkStore' = chunkStore
            /\ timers' = timers]_vars

\* A finalization for j1, which has no record, was answered 404 while the
\* record of j2 is in the store.
C15_Witness ==
  /\ req = Request("POST /ingest", "finalization", "j1")
  /\ res = ErrorResponse(404)
  /\ ~Has("j1")
  /\ Has("j2")

\* C16: finalization is idempotent: a finalization message for a job that is
\* already complete and finalized leaves every field of the job unchanged
\* (finalized, finalizedAt, the received count, the reassembled capture),
\* triggers no further reassembly or processing, and is answered as the
\* finalization before it was.
C16_RepeatedFinalizationNoOp ==
  [][\A j \in JobIds :
       (/\ Has(j)
        /\ chunkStore[j].reassembled
        /\ chunkStore[j].finalized
        /\ req' = Request("POST /ingest", "finalization", j))
         => /\ chunkStore' = chunkStore
            /\ timers' = timers
            /\ (res.kind = "finalized" /\ res.jobId = j) => res' = res]_vars

\* The chunks of the record arrived in index order, each once, none beyond the
\* declared total.
InOrder(jobData) ==
  /\ jobData.receivedChunks = Len(jobData.chunks)
  /\ \A k \in 1..Len(jobData.chunks) : jobData.chunks[k].index = k - 1
  /\ Len(jobData.chunks) <= jobData.totalExpected

\* C20: end-to-end happy path: for an upload of N chunks delivered in index
\* order, the acknowledgment of chunk k reports chunkReceived = k and
\* isComplete exactly for k = N; a finalization after the N chunks is answered
\* 'finalized' with chunksReceived = N = totalExpected; a status query after
\* it, before eviction, reports 'completed' and finalized true.
C20_HappyPath ==
  \A j \in DOMAIN chunkStore :
    LET jobData == chunkStore[j]
        k == Len(jobData.chunks)
        N == jobData.totalExpected
    IN  (InOrder(jobData) /\ res.kind # "none" /\ res.kind # "error" /\ res.jobId = j)
          => /\ res.kind = "ack"
                 => /\ res.chunkReceived = k
                    /\ res.totalChunks = N
                    /\ res.isComplete <=> k = N
             /\ (res.kind = "finalized" /\ k = N)
                 => /\ res.status = 200
                    /\ res.chunksReceived = N
                    /\ res.totalExpected = N
             /\ (res.kind = "status" /\ k = N /\ jobData.finalized)
                 => /\ res.completed
                    /\ res.finalized
                    /\ res.chunksReceived = N

\* Two chunks arrived in order, the job was finalized, and the status query
\* reported it completed and finalized.
C20_Witness ==
  /\ Has("j1")
  /\ InOrder(chunkStore["j1"])
  /\ Len(chunkStore["j1"].chunks) = 2
  /\ chunkStore["j1"].totalExpected = 2
  /\ res.kind = "status"
  /\ res.completed
  /\ res.finalized

\* C11: exactly-once reassembly: for any interleaving of the chunk and
\* finalization handlers of one job, their await points included,
\* reassembleChunks and processCompleteCapture are each triggered at most once
\* for a job record, and exactly once if all chunks arrive (processing once the
\* handler that reassembled has resumed).
C11_ExactlyOnce ==
  \A j \in JobIds :
    /\ triggers[j].reassembled <= 1
    /\ triggers[j].processed <= triggers[j].reassembled
    /\ (Has(j) /\ AllPresent(chunkStore[j]))
         => /\ triggers[j].reassembled = 1
            /\ PendingFor(j) = {} => triggers[j].processed = 1

\* Every chunk of a finalized job is stored, and a finalization was served
\* while the chunk handler that reassembled the job was suspended.
C11_Witness ==
  /\ Has("j1")
  /\ AllPresent(chunkStore["j1"])
  /\ chunkStore["j1"].finalized
  /\ \E k \in 1..Len(pending) : pending[k].kind = "chunk"
  /\ triggers["j1"].reassembled = 1

ChunkRequests == {"chunk1", "chunk2"}

\* C17: ordered sequential dispatch: the client sends the chunks in ascending
\* index order, 0 first, and sends chunk i+1 only once the send of chunk i has
\* resolved; the server stores them in that order.
C17_SequentialDispatch ==
  /\ \A k \in 1..Len(sent) :
       sent[k].request \in ChunkRequests
         => /\ ClientPayload(sent[k].request).index = k - 1
            /\ k > 1 => sent[k - 1].outcome = "resolved"
  /\ Has(ClientJob)
       => \A k \in 1..Len(chunkStore[ClientJob].chunks) :
            chunkStore[ClientJob].chunks[k].index = k - 1

\* Chunk 2 was submitted after chunk 1 resolved, and the server holds both.
C17_Witness ==
  /\ Len(sent) >= 2
  /\ sent[1] = Sent("chunk1", "resolved")
  /\ sent[2].request = "chunk2"
  /\ Has(ClientJob)
  /\ Len(chunkStore[ClientJob].chunks) = 2

\* C18: abort on failure: once the send of a chunk has failed, the client sends
\* no further chunk and no finalization for the job, and the failure is
\* reported: the process exits with code 1. The same holds for a failed
\* finalization or status query.
C18_AbortOnFailure ==
  \A k \in 1..Len(sent) :
    sent[k].outcome = "rejected"
      => /\ k = Len(sent)
         /\ awaiting = NoOutcome
         /\ clientPc = "exited"
         /\ exitCode = 1
         /\ (sent[k].request \in ChunkRequests /\ Has(ClientJob))
              => ~chunkStore[ClientJob].finalized

\* Chunk 1 was stored, the send of chunk 2 failed, and the client exited.
C18_Witness ==
  /\ Len(sent) = 2
  /\ sent[2] = Sent("chunk2", "rejected")
  /\ Has(ClientJob)
  /\ exitCode = 1

Finalizations == {k \in 1..Len(sent) : sent[k].request = "finalization"}

\* C19: the client sends exactly one finalization message per successful
\* upload, and only after every chunk of the job has been sent successfully.
C19_OneFinalization ==
  /\ Cardinality(Finalizations) <= 1
  /\ \A k \in Finalizations :
       /\ k = Cardinality(ChunkRequests) + 1
       /\ \A c \in 1..(k - 1) :
            sent[c].request \in ChunkRequests /\ sent[c].outcome = "resolved"
  /\ clientPc \in {"status", "done"} => Cardinality(Finalizations) = 1

\* The upload succeeded: both chunks, the finalization and the status query
\* resolved.
C19_Witness ==
  /\ clientPc = "done"
  /\ Len(sent) = Len(Requests)
  /\ sent[3] = Sent("finalization", "resolved")

\* C21: retention: a job record is removed from the store only after the job
\* is both complete and finalized; a job that is complete but not finalized,
\* or still receiving, is never evicted.
C21_EvictedOnlyWhenFinalized ==
  [][\A j \in JobIds :
       (Has(j) /\ j \notin DOMAIN chunkStore')
         => chunkStore[j].reassembled /\ chunkStore[j].finalized]_vars

\* C23: index range invariant: each index stored in a job's chunk map lies in
\* 0..totalExpected-1 (a chunk message with an index outside is rejected and
\* not stored).
C23_IndexInRange ==
  \A j \in DOMAIN chunkStore : MapKeys(chunkStore[j].chunks) \subseteq InRange(chunkStore[j])

\* C24: chunking threshold: the content is split into more than one chunk if
\* and only if its size exceeds the threshold (four chunk sizes): the test's
\* threshold check passes for every content size.
C24_ThresholdTest == Returned => ThresholdTest

\* The response reports job j finalized.
SaysFinalized(r, j) ==
  /\ r.kind \in {"status", "finalized"}
  /\ r.jobId = j
  /\ r.kind = "status" => r.finalized

\* C26: finalized implies complete: a job that a response (status endpoint or
\* finalization response) reports finalized has received all totalExpected
\* chunks.
C26_FinalizedImpliesComplete ==
  \A j \in JobIds :
    SaysFinalized(res, j)
      => /\ Has(j)
         /\ chunkStore[j].receivedChunks >= chunkStore[j].totalExpected

\* C30: splitIntoChunks terminates for every content and every chunk size
\* C >= 1, after exactly ceil(N/C) loop iterations, never emits an empty
\* chunk, and every iteration strictly increases the offset.
C30_Terminates ==
  /\ [](/\ iterations <= CeilDiv(Len(content), chunkSize)
        /\ Len(chunks) = iterations
        /\ offset = iterations * chunkSize
        /\ \A k \in 1..Len(chunks) : chunks[k] # <<>>
        /\ Returned => iterations = CeilDiv(Len(content), chunkSize))
  /\ <>Returned

\* The loop ran three times and returned.
C30_Witness ==
  /\ splitPc = "returned"
  /\ iterations = 3
  /\ offset >= Len(content)

\* C22: rejected messages leave the store unchanged: whenever POST /ingest
\* answers a message with an error status (400, 404 or 500), no job record has
\* been created and no chunk stored, counted or reassembled by that message.
C22_RejectedLeavesStore ==
  [][(req'.route = "POST /ingest" /\ res'.kind = "error")
       => chunkStore' = chunkStore]_vars

\* C29: eviction is final for a jobId: once the cleanup timeout has deleted a
\* job's record, no later message for the same jobId creates a new record (or
\* has the capture reassembled and processed a second time).
C29_EvictionIsFinal == \A j \in evicted : ~Has(j)

\* C25: allowlist mode only allows specified sites: whenever the mode is
\* 'allowlist', isAllowed returns allowed = true only if the url matches at
\* least one pattern currently in the allowlist, the empty and the unreadable
\* list included.
C25_AllowlistOnlyAllowsListed ==
  (checked.mode = "allowlist" /\ checked.allowed)
    => \E k \in 1..Len(GetList("allowlist")) :
         MatchesPattern(checked.host, GetList("allowlist")[k])

\* C27: reset restores the defaults: after reset() returns, following any
\* calls of update, addExcludeSelector, removeExcludeSelector,
\* addCustomPattern, removeCustomPattern and import, with or without a stored
\* configuration, config equals the original default configuration: the
\* three default exclude selectors, the four built-in patterns and no other.
C27_ResetRestoresDefaults ==
  returned.method = "reset" => ValueOf(config, defaultConfig) = DefaultConfig

Successors ==
  { <<JobStatus.PENDING, JobStatus.PROCESSING>>,
    <<JobStatus.PROCESSING, JobStatus.COMPLETED>>,
    <<JobStatus.PROCESSING, JobStatus.FAILED>> }

HandedOut(jobId) == jobId < jobCounter

\* C28: dashboard job lifecycle: in every step a job in the store keeps its
\* status or moves from pending to processing or from processing to
\* completed or failed, so completed and failed never change; a job enters
\* the store pending and under a jobId never handed out before, so a deleted
\* job is never inserted again; and GET for a deleted job answers 404, also
\* while its timers are yet to fire.
C28_JobLifecycle ==
  [][\A jobId \in Asked :
       /\ (jobId \in DOMAIN jobs /\ jobId \in DOMAIN jobs')
            => \/ jobs'[jobId].status = jobs[jobId].status
               \/ <<jobs[jobId].status, jobs'[jobId].status>> \in Successors
       /\ (jobId \notin DOMAIN jobs /\ jobId \in DOMAIN jobs')
            => ~HandedOut(jobId) /\ jobs'[jobId].status = JobStatus.PENDING
       /\ (/\ reply'.route = "GET /jobs/:jobId" /\ reply'.jobId = jobId
           /\ HandedOut(jobId) /\ jobId \notin DOMAIN jobs)
            => reply'.code = 404]_vars

\* A deleted job whose timer is yet to fire was asked about and not found,
\* while another job has completed.
C28_Witness ==
  \E jobId \in Asked :
    /\ HandedOut(jobId) /\ jobId \notin DOMAIN jobs
    /\ \E timer \in dashTimers : timer.jobId = jobId
    /\ reply = Reply("GET /jobs/:jobId", jobId, 404, "")
    /\ \E other \in DOMAIN jobs : jobs[other].status = JobStatus.COMPLETED
====
